---- MODULE Spec2Model ----
(***************************************************************************)
(* mio-child-process: a child process whose stdout, stderr and exit are    *)
(* bridged by blocking producer threads (one reader per captured stream,   *)
(* one exit waiter) into one multi-producer single-consumer event channel  *)
(* that the owner of the Process drains with the non-blocking try_recv.    *)
(***************************************************************************)
EXTENDS Integers, Sequences, FiniteSets, TLC

VARIABLES
    os,         \* the child as the OS sees it: state, exit status
    child,      \* std::process::Child: which handles it still holds (Some)
    pipe,       \* per stream: bytes the child wrote that nobody has read yet
    out,        \* per stream: everything the child wrote (history)
    proc,       \* the Process struct, or NoProcess before from_child
    thread,     \* per producer thread: "none", "run", "fin" (closure returned), "done"
    senders,    \* producer threads that still hold a Sender
    queue,      \* events in the channel, oldest first
    sent,       \* history: every event sent, in send order, with its sender
    received,   \* history: events returned by try_recv, in order
    last,       \* the call on the Process that the last step was, and its return
    seenDisc,   \* history: some try_recv has returned Disconnected
    piped,      \* per stream: the Command was given Stdio::piped() for it
    win         \* Windows: the process table, and what the last kill did

vars == <<os, child, pipe, out, proc, thread, senders, queue, sent, received, last,
          seenDisc, piped, win>>

----------------------------------------------------------------------------
(* Bounds *)

\* longest text the child writes to a stream when it is the only captured one
MaxLen == 1
\* longest texts the child writes when stdout and stderr are both captured
MaxBothOut == 0
MaxBothErr == 0
\* processes in the table of the OS besides the child
MaxProcs == 2

\* the runs that only read the streams and drain the channel take one byte more
StreamLen == MaxLen + 1
StreamBothOut == MaxBothOut + 1

\* size of the reader's buffer: a read returns at most this many bytes
BufferSize == 1024

\* bytes the child can write: 'a', and the two bytes of U+00E9 (C3 A9)
Bytes == {97, 195, 169}

\* buffers handed to write
WriteBufs == {<<97>>}

\* process identifiers the OS hands out
Pids == {1}

\* exit codes of a child that exits by itself
ExitCodes == {"exit 0"}

\* exit status of a child ended by SIGKILL
Killed == "signal 9"

\* `last` after a step that is no call on the Process
Idle == [op |-> "-", res |-> "-"]

Chan == {"Stdout", "Stderr"}
Threads == Chan \cup {"Waiter"}
NoProcess == [stdin |-> FALSE, id |-> 0, built |-> FALSE, dropped |-> FALSE]

SeqsUpTo(S, n) == UNION {[1..k -> S] : k \in 0..n}

Min(a, b) == IF a < b THEN a ELSE b

----------------------------------------------------------------------------
(* ProcessEvent *)

Data(ch, text) == [type |-> "Data", ch |-> ch, text |-> text, status |-> "-"]
CommandError == [type |-> "CommandError", ch |-> "-", text |-> <<>>, status |-> "-"]
IoError(ch) == [type |-> "IoError", ch |-> ch, text |-> <<>>, status |-> "-"]
Utf8Error(ch) == [type |-> "Utf8Error", ch |-> ch, text |-> <<>>, status |-> "-"]
Exit(status) == [type |-> "Exit", ch |-> "-", text |-> <<>>, status |-> status]

----------------------------------------------------------------------------
(* std::str::from_utf8: whether a byte sequence is well-formed UTF-8 *)

IsCont(b) == b >= 128 /\ b <= 191

RECURSIVE Utf8Valid(_)
Utf8Valid(s) ==
    IF s = <<>> THEN TRUE
    ELSE LET b == s[1]
             n == Len(s)
             rest(k) == SubSeq(s, k + 1, n)
         IN  IF b < 128 THEN Utf8Valid(rest(1))
             ELSE IF b >= 194 /\ b <= 223
                  THEN n >= 2 /\ IsCont(s[2]) /\ Utf8Valid(rest(2))
             ELSE IF b >= 224 /\ b <= 239
                  THEN /\ n >= 3
                       /\ IsCont(s[2]) /\ IsCont(s[3])
                       /\ (b = 224 => s[2] >= 160)
                       /\ (b = 237 => s[2] <= 159)
                       /\ Utf8Valid(rest(3))
             ELSE IF b >= 240 /\ b <= 244
                  THEN /\ n >= 4
                       /\ IsCont(s[2]) /\ IsCont(s[3]) /\ IsCont(s[4])
                       /\ (b = 240 => s[2] >= 144)
                       /\ (b = 244 => s[2] <= 143)
                       /\ Utf8Valid(rest(4))
             ELSE FALSE

----------------------------------------------------------------------------
(* The channel (mio_extras::channel over std::sync::mpsc) *)

\* a channel that hands out the newest event first
SendToFront(q, e) == <<e>> \o q

\* sender.send(e): the event goes to the back of the queue
Send(q, e) == Append(q, e)

RECURSIVE SendAll(_, _)
SendAll(q, evs) ==
    IF evs = <<>> THEN q ELSE SendAll(Send(q, Head(evs)), Tail(evs))

\* a receiver that never reports the end of the channel
TryRecvNeverDisconnected(q, s) ==
    IF q # <<>> THEN "Event" ELSE "Empty"

\* a receiver that reports the end of the channel whenever nothing is queued
TryRecvDisconnectedWhenEmpty(q, s) ==
    IF q # <<>> THEN "Event" ELSE "Disconnected"

\* receiver.try_recv() on queue q while the threads in s hold a sender
TryRecvResult(q, s) ==
    IF q # <<>> THEN "Event"
    ELSE IF s = {} THEN "Disconnected"
    ELSE "Empty"

\* the Receiver lives in the Process: once the Process is dropped,
\* sender.send returns Err and queues nothing
Connected == ~proc.dropped
Delivered(evs) == IF Connected THEN evs ELSE <<>>

\* the history entries of events evs sent by thread t
Stamp(t, evs) == [i \in 1..Len(evs) |-> [by |-> t, ev |-> evs[i]]]

----------------------------------------------------------------------------
(* try_send_buffer: the events it sends and what it returns *)

\* try_send_buffer that reports Utf8Error and lets the caller go on
TrySendBufferGoesOn(buffer, channel) ==
    IF ~Utf8Valid(buffer)
    THEN [res |-> "Ok", evs |-> <<Utf8Error(channel)>>]
    ELSE IF buffer = <<>>
    THEN [res |-> "Abort", evs |-> <<>>]
    ELSE [res |-> "Ok", evs |-> <<Data(channel, buffer)>>]

\* try_send_buffer that does not look at what send returned
TrySendBufferUnchecked(buffer, channel) ==
    IF ~Utf8Valid(buffer)
    THEN [res |-> "Abort", evs |-> Delivered(<<Utf8Error(channel)>>)]
    ELSE IF buffer = <<>>
    THEN [res |-> "Abort", evs |-> <<>>]
    ELSE [res |-> "Ok", evs |-> Delivered(<<Data(channel, buffer)>>)]

\* evs are the events that reach the channel; a failed send of Utf8Error is
\* dropped (let _ =), a failed send of Data is an Abort
TrySendBuffer(buffer, channel) ==
    IF ~Utf8Valid(buffer)
    THEN [res |-> "Abort", evs |-> Delivered(<<Utf8Error(channel)>>)]
    ELSE IF buffer = <<>>
    THEN [res |-> "Abort", evs |-> <<>>]
    ELSE IF Connected
    THEN [res |-> "Ok", evs |-> <<Data(channel, buffer)>>]
    ELSE [res |-> "Abort", evs |-> <<>>]

----------------------------------------------------------------------------
(* from_child *)

\* a from_child that spawns both readers whatever the Child holds
ProducersOfAll(c) == Threads

\* the threads from_child spawns for Child c, each with its own sender
Producers(c) == {ch \in Chan : c[ch]} \cup {"Waiter"}

\* a from_child that leaves the handles in the Child
TakenNothing(c) == c

\* the Child after stdout.take(), stderr.take() and stdin.take()
Taken(c) == [c EXCEPT !.Stdout = FALSE, !.Stderr = FALSE, !.Stdin = FALSE]

FromChild ==
    /\ ~proc.built
    /\ thread' = [t \in Threads |-> IF t \in Producers(child) THEN "run" ELSE "none"]
    /\ senders' = Producers(child)
    /\ proc' = [stdin |-> child.Stdin, id |-> child.id, built |-> TRUE,
                dropped |-> FALSE]
    /\ child' = Taken(child)
    /\ last' = Idle
    /\ UNCHANGED <<os, pipe, out, queue, sent, received, seenDisc, piped,
                   win>>

----------------------------------------------------------------------------
(* The child process *)

ChildExit ==
    /\ os.state = "running"
    /\ \E code \in ExitCodes : os' = [state |-> "zombie", status |-> code]
    /\ last' = Idle
    /\ UNCHANGED <<child, pipe, out, proc, thread, senders, queue, sent,
                   received, seenDisc, piped,
                   win>>

----------------------------------------------------------------------------
(* create_reader: one iteration of the loop per step *)

\* stream.read returned Ok(n), n >= 1: the first n unread bytes
ReadData(ch) ==
    /\ thread[ch] = "run"
    /\ pipe[ch] # <<>>
    /\ \E n \in 1..Min(BufferSize, Len(pipe[ch])) :
         LET buffer == SubSeq(pipe[ch], 1, n)
             r == TrySendBuffer(buffer, ch)
         IN  /\ pipe' = [pipe EXCEPT ![ch] = SubSeq(pipe[ch], n + 1, Len(pipe[ch]))]
             /\ queue' = SendAll(queue, r.evs)
             /\ sent' = sent \o Stamp(ch, r.evs)
             /\ thread' = [thread EXCEPT ![ch] = IF r.res = "Abort" THEN "fin" ELSE "run"]
    /\ last' = Idle
    /\ UNCHANGED <<os, child, out, proc, senders, received, seenDisc, piped,
                   win>>

\* a reader that reads again after Ok(0)
ReadEofReadsOn(ch) ==
    /\ thread[ch] = "run"
    /\ pipe[ch] = <<>>
    /\ os.state # "running"
    /\ last' = Idle
    /\ UNCHANGED <<os, child, pipe, out, proc, thread, senders, queue, sent, received,
                   seenDisc, piped, win>>

\* stream.read returned Ok(0): every write end is closed and nothing is unread
ReadEof(ch) ==
    /\ thread[ch] = "run"
    /\ pipe[ch] = <<>>
    /\ os.state # "running"
    /\ thread' = [thread EXCEPT ![ch] = "fin"]
    /\ last' = Idle
    /\ UNCHANGED <<os, child, pipe, out, proc, senders, queue, sent, received, seenDisc, piped,
                   win>>

\* a read error that brings down every producer that runs
ReadErrStopsAll(ch) ==
    /\ thread[ch] = "run"
    /\ queue' = SendAll(queue, Delivered(<<IoError(ch)>>))
    /\ sent' = sent \o Stamp(ch, Delivered(<<IoError(ch)>>))
    /\ thread' = [t \in Threads |-> IF thread[t] = "run" THEN "fin" ELSE thread[t]]
    /\ last' = Idle
    /\ UNCHANGED <<os, child, pipe, out, proc, senders, received, seenDisc, piped,
                   win>>

\* stream.read returned Err(e)
ReadErr(ch) ==
    /\ thread[ch] = "run"
    /\ queue' = SendAll(queue, Delivered(<<IoError(ch)>>))
    /\ sent' = sent \o Stamp(ch, Delivered(<<IoError(ch)>>))
    /\ thread' = [thread EXCEPT ![ch] = "fin"]
    /\ last' = Idle
    /\ UNCHANGED <<os, child, pipe, out, proc, senders, received, seenDisc, piped,
                   win>>

----------------------------------------------------------------------------
(* The exit waiter *)

\* what the closure sends after wait_with_output returned Ok(result): the
\* trailing buffers that are not empty, then Exit
WaiterOkEvents(result) ==
    LET r1 == IF result.stdout # <<>>
              THEN TrySendBuffer(result.stdout, "Stdout")
              ELSE [res |-> "Ok", evs |-> <<>>]
        r2 == IF result.stderr # <<>>
              THEN TrySendBuffer(result.stderr, "Stderr")
              ELSE [res |-> "Ok", evs |-> <<>>]
    IN  IF r1.res = "Abort" THEN r1.evs
        ELSE IF r2.res = "Abort" THEN r1.evs \o r2.evs
        ELSE r1.evs \o r2.evs \o <<Exit(result.status)>>

\* a waiter that returns on a failed wait without sending anything
WaiterSilentOnError(result) ==
    IF ~result.ok THEN <<>> ELSE WaiterOkEvents(result)

\* a waiter whose Err arm does not return
WaiterFallsThrough(result) ==
    IF ~result.ok THEN <<CommandError, Exit(result.status)>> ELSE WaiterOkEvents(result)

\* what the closure sends once wait_with_output has returned
WaiterEvents(result) ==
    IF ~result.ok THEN <<CommandError>> ELSE WaiterOkEvents(result)

\* Child::wait_with_output: reads to the end the streams the Child still
\* holds, then reaps the child
WaitOk ==
    /\ thread["Waiter"] = "run"
    /\ os.state = "zombie"
    /\ LET result == [ok |-> TRUE,
                      stdout |-> IF child.Stdout THEN pipe.Stdout ELSE <<>>,
                      stderr |-> IF child.Stderr THEN pipe.Stderr ELSE <<>>,
                      status |-> os.status]
           evs == Delivered(WaiterEvents(result))
       IN  /\ queue' = SendAll(queue, evs)
           /\ sent' = sent \o Stamp("Waiter", evs)
           /\ pipe' = [ch \in Chan |-> IF child[ch] THEN <<>> ELSE pipe[ch]]
    /\ os' = [os EXCEPT !.state = "reaped"]
    /\ thread' = [thread EXCEPT !["Waiter"] = "fin"]
    /\ last' = Idle
    /\ UNCHANGED <<child, out, proc, senders, received, seenDisc, piped,
                   win>>

\* wait_with_output returned Err(e)
WaitErr ==
    /\ thread["Waiter"] = "run"
    /\ LET result == [ok |-> FALSE, stdout |-> <<>>, stderr |-> <<>>, status |-> "-"]
           evs == Delivered(WaiterEvents(result))
       IN  /\ queue' = SendAll(queue, evs)
           /\ sent' = sent \o Stamp("Waiter", evs)
    /\ thread' = [thread EXCEPT !["Waiter"] = "fin"]
    /\ last' = Idle
    /\ UNCHANGED <<os, child, pipe, out, proc, senders, received, seenDisc, piped,
                   win>>

\* a thread that ends while a clone of its sender stays alive
ThreadExitKeepsSender(t) ==
    /\ thread[t] = "fin"
    /\ thread' = [thread EXCEPT ![t] = "done"]
    /\ last' = Idle
    /\ UNCHANGED <<os, child, pipe, out, proc, senders, queue, sent, received, seenDisc, piped,
                   win>>

\* a producer's closure has returned: the thread ends and its sender is dropped
ThreadExit(t) ==
    /\ thread[t] = "fin"
    /\ thread' = [thread EXCEPT ![t] = "done"]
    /\ senders' = senders \ {t}
    /\ last' = Idle
    /\ UNCHANGED <<os, child, pipe, out, proc, queue, sent, received, seenDisc, piped,
                   win>>

----------------------------------------------------------------------------
(* The consumer: calls on the Process, one at a time (&mut self) *)

\* the consumer has the Process
Held == proc.built /\ ~proc.dropped

TryRecv ==
    /\ Held
    /\ LET res == TryRecvResult(queue, senders)
       IN  /\ last' = [op |-> "try_recv", res |-> res]
           /\ seenDisc' = (seenDisc \/ res = "Disconnected")
           /\ IF res = "Event"
              THEN /\ received' = Append(received, Head(queue))
                   /\ queue' = Tail(queue)
              ELSE UNCHANGED <<received, queue>>
    /\ UNCHANGED <<os, child, pipe, out, proc, thread, senders, sent, piped, win>>

\* write that does not look whether stdin is there
WriteResultsUnchecked(stdin, state) ==
    IF state = "running" THEN {"Ok", "BrokenPipe"} ELSE {"BrokenPipe"}

\* what write can return: stdin is the Option the Process holds
WriteResults(stdin, state) ==
    IF ~stdin THEN {"NotConnected"}
    ELSE IF state = "running" THEN {"Ok", "BrokenPipe"}
    ELSE {"BrokenPipe"}

Write ==
    /\ Held
    /\ \E buf \in WriteBufs : \E res \in WriteResults(proc.stdin, os.state) :
         last' = [op |-> "write", res |-> res]
    /\ UNCHANGED <<os, child, pipe, out, proc, thread, senders, queue, sent,
                   received, seenDisc, piped,
                   win>>

\* what flush can return
FlushResults(stdin) == IF ~stdin THEN {"NotConnected"} ELSE {"Ok"}

Flush ==
    /\ Held
    /\ \E res \in FlushResults(proc.stdin) : last' = [op |-> "flush", res |-> res]
    /\ UNCHANGED <<os, child, pipe, out, proc, thread, senders, queue, sent,
                   received, seenDisc, piped,
                   win>>

\* a kill(2) that finds every pid
KillResultAnyPid(state) == "Ok"

\* libc::kill(id, SIGKILL): fails once the pid has been reaped, unless the OS
\* has given the pid to another process since
KillResult(state) == IF state = "reaped" THEN "Err" ELSE "Ok"

\* kill of the build for Linux
Kill ==
    /\ Held
    /\ win.platform = "linux"
    /\ last' = [op |-> "kill", res |-> KillResult(os.state)]
    /\ os' = IF os.state = "running" THEN [state |-> "zombie", status |-> Killed]
             ELSE IF os.state = "reused" THEN [os EXCEPT !.state = "reaped"]
             ELSE os
    /\ UNCHANGED <<child, pipe, out, proc, thread, senders, queue, sent,
                   received, seenDisc, piped, win>>

\* the OS gives the pid of the reaped child to a process that has nothing to
\* do with this program
PidReuse ==
    /\ os.state = "reaped"
    /\ os' = [os EXCEPT !.state = "reused"]
    /\ last' = Idle
    /\ UNCHANGED <<child, pipe, out, proc, thread, senders, queue, sent,
                   received, seenDisc, piped, win>>

----------------------------------------------------------------------------
(* kill of the build for Windows: a snapshot of the process table, then     *)
(* kill_pid on the child's pid                                              *)

\* the pids of the process table: the child's and MaxProcs others
AllPids == 1..(MaxProcs + 1)
\* th32ParentProcessID of a process whose parent is not in the table
NoParent == 0
\* frames the stack has room for: more than the longest chain of distinct pids
StackFrames == MaxProcs + 2

\* the pids the toolhelp snapshot lists: the processes that run now
Listed == win.alive \cup (IF os.state \in {"running", "reused"} THEN {proc.id} ELSE {})

\* the pids of a set, smallest first: the order Process32Next lists them in
RECURSIVE Ascending(_)
Ascending(S) ==
    IF S = {} THEN <<>>
    ELSE LET m == CHOOSE x \in S : \A y \in S : x <= y
         IN  <<m>> \o Ascending(S \ {m})

\* a table in which no process has children
ChildrenNotLooked(pid, listed) == <<>>

\* processes.get(&pid): the listed pids whose th32ParentProcessID is pid
Children(pid, listed) == Ascending({c \in listed : win.parent[c] = pid})

\* OpenProcess and TerminateProcess on pid: they succeed on a process that can
\* be terminated now and that this call has not terminated already
Terminated(log) == {log[i].pid : i \in {j \in 1..Len(log) : log[j].ok}}
Terminate(pid, can, log) ==
    LET ok == pid \in can /\ pid \notin Terminated(log)
    IN  [res |-> IF ok THEN "Ok" ELSE "Err", log |-> Append(log, [pid |-> pid, ok |-> ok])]

RECURSIVE KillPid(_, _, _, _, _), KillPidParentFirst(_, _, _, _, _)
RECURSIVE KillChildren(_, _, _, _, _), KillChildrenGoesOn(_, _, _, _, _)

\* a loop over the children that drops the result of kill_pid
KillChildrenGoesOn(children, listed, can, frames, log) ==
    IF children = <<>> THEN [res |-> "Ok", log |-> log]
    ELSE LET r == KillPid(Head(children), listed, can, frames, log)
         IN  IF r.res = "Overflow" THEN r
             ELSE KillChildrenGoesOn(Tail(children), listed, can, frames, r.log)

\* for child in children { kill_pid(*child, processes)?; }
KillChildren(children, listed, can, frames, log) ==
    IF children = <<>> THEN [res |-> "Ok", log |-> log]
    ELSE LET r == KillPid(Head(children), listed, can, frames, log)
         IN  IF r.res # "Ok" THEN r
             ELSE KillChildren(Tail(children), listed, can, frames, r.log)

\* a kill_pid that terminates pid before its children
KillPidParentFirst(pid, listed, can, frames, log) ==
    IF frames = 0 THEN [res |-> "Overflow", log |-> log]
    ELSE LET own == Terminate(pid, can, log)
         IN  IF own.res # "Ok" THEN own
             ELSE KillChildren(Children(pid, listed), listed, can, frames - 1, own.log)

\* kill_pid: the children of pid first, then pid; a call that finds no frame
\* left overflows the stack
KillPid(pid, listed, can, frames, log) ==
    IF frames = 0 THEN [res |-> "Overflow", log |-> log]
    ELSE LET kids == KillChildren(Children(pid, listed), listed, can, frames - 1, log)
         IN  IF kids.res # "Ok" THEN kids
             ELSE Terminate(pid, can, kids.log)

\* the whole kill: snapshot is FALSE when CreateToolhelp32Snapshot or
\* Process32First fails; can holds the processes a terminate request succeeds
\* on (a listed process can exit before its request, or refuse the handle).
\* A stack overflow aborts the program: no later call
KillWindows ==
    /\ Held
    /\ win.platform = "windows"
    /\ win.res # "Overflow"
    /\ \E snapshot \in BOOLEAN : \E can \in SUBSET Listed :
         LET r == IF snapshot THEN KillPid(proc.id, Listed, can, StackFrames, <<>>)
                  ELSE [res |-> "Err", log |-> <<>>]
             gone == Terminated(r.log)
         IN  /\ win' = [win EXCEPT !.log = r.log, !.res = r.res,
                                   !.alive = win.alive \ gone]
             /\ os' = IF proc.id \notin gone THEN os
                      ELSE IF os.state = "running"
                           THEN [state |-> "zombie", status |-> Killed]
                           ELSE [os EXCEPT !.state = "reaped"]
             /\ last' = [op |-> "kill", res |-> r.res]
    /\ UNCHANGED <<child, pipe, out, proc, thread, senders, queue, sent,
                   received, seenDisc, piped>>

\* the Process goes out of scope: the Receiver is dropped with what is queued,
\* and stdin is closed; no Drop impl touches the child or the threads
Drop ==
    /\ Held
    /\ proc' = [proc EXCEPT !.dropped = TRUE]
    /\ queue' = <<>>
    /\ last' = [op |-> "drop", res |-> "-"]
    /\ UNCHANGED <<os, child, pipe, out, thread, senders, sent, received, seenDisc,
                   piped, win>>

\* register, reregister and deregister hand the call to the receiver; what the
\* Poll answers is not part of this state
Register ==
    /\ Held
    /\ last' = [op |-> "register", res |-> "-"]
    /\ UNCHANGED <<os, child, pipe, out, proc, thread, senders, queue, sent, received, seenDisc, piped,
                   win>>

Reregister ==
    /\ Held
    /\ last' = [op |-> "reregister", res |-> "-"]
    /\ UNCHANGED <<os, child, pipe, out, proc, thread, senders, queue, sent, received, seenDisc, piped,
                   win>>

Deregister ==
    /\ Held
    /\ last' = [op |-> "deregister", res |-> "-"]
    /\ UNCHANGED <<os, child, pipe, out, proc, thread, senders, queue, sent, received, seenDisc, piped,
                   win>>

----------------------------------------------------------------------------
(* Command::spawn has returned a running Child; from_child has not run yet *)

\* solo bounds a stream captured alone, bothOut and bothErr the two streams
\* when both are captured; an uncaptured stream is not a pipe and holds nothing
InitOf(solo, bothOut, bothErr) ==
    /\ os = [state |-> "running", status |-> "-"]
    /\ child \in [Stdout : BOOLEAN, Stderr : BOOLEAN, Stdin : BOOLEAN, id : Pids]
    /\ out \in [Chan -> SeqsUpTo(Bytes, solo)]
    /\ \A ch \in Chan : ~child[ch] => out[ch] = <<>>
    /\ (child.Stdout /\ child.Stderr) =>
           Len(out.Stdout) <= bothOut /\ Len(out.Stderr) <= bothErr
    /\ pipe = out
    /\ proc = NoProcess
    /\ thread = [t \in Threads |-> "none"]
    /\ senders = {}
    /\ queue = <<>>
    /\ sent = <<>>
    /\ received = <<>>
    /\ last = Idle
    /\ seenDisc = FALSE
    /\ piped = [ch \in Chan |-> child[ch]]

\* a build for Linux: kill never looks at the process table
NoTable == [platform |-> "linux", parent |-> [p \in AllPids |-> NoParent],
            alive |-> {}, log |-> <<>>, res |-> "-"]

Init == InitOf(MaxLen, MaxBothOut, MaxBothErr) /\ win = NoTable

\* the runs that only read the streams and drain the channel never use stdin
InitStreams ==
    InitOf(StreamLen, StreamBothOut, MaxBothErr) /\ ~child.Stdin /\ win = NoTable

\* the runs that only kill: nothing is captured; on Windows every process of
\* the table runs and records any pid, or none, as its parent
InitKill ==
    /\ InitOf(0, 0, 0)
    /\ ~child.Stdout /\ ~child.Stderr /\ ~child.Stdin
    /\ \/ win = NoTable
       \/ \E f \in [AllPids -> {NoParent} \cup AllPids] :
            win = [platform |-> "windows", parent |-> f,
                   alive |-> AllPids \ Pids, log |-> <<>>, res |-> "-"]

Next ==
    \/ FromChild
    \/ ChildExit
    \/ \E ch \in Chan : ReadData(ch)
    \/ \E ch \in Chan : ReadEof(ch)
    \/ \E ch \in Chan : ReadErr(ch)
    \/ WaitOk
    \/ WaitErr
    \/ \E t \in Threads : ThreadExit(t)
    \/ TryRecv
    \/ Write
    \/ Flush
    \/ Kill
    \/ Register
    \/ Reregister
    \/ Deregister

Spec == Init /\ [][Next]_vars

\* the producers and a consumer that only drains the channel
NextStreams ==
    \/ FromChild
    \/ ChildExit
    \/ \E ch \in Chan : ReadData(ch)
    \/ \E ch \in Chan : ReadEof(ch)
    \/ \E ch \in Chan : ReadErr(ch)
    \/ WaitOk
    \/ WaitErr
    \/ \E t \in Threads : ThreadExit(t)
    \/ TryRecv

StreamSpec == InitStreams /\ [][NextStreams]_vars

\* the runs in which the consumer does nothing but drop the Process
NextDrop ==
    \/ FromChild
    \/ ChildExit
    \/ \E ch \in Chan : ReadData(ch)
    \/ \E ch \in Chan : ReadEof(ch)
    \/ \E ch \in Chan : ReadErr(ch)
    \/ WaitOk
    \/ WaitErr
    \/ \E t \in Threads : ThreadExit(t)
    \/ Drop

DropSpec == InitStreams /\ [][NextDrop]_vars

\* the runs that only kill, on either build
NextKill ==
    \/ FromChild
    \/ ChildExit
    \/ WaitOk
    \/ WaitErr
    \/ \E t \in Threads : ThreadExit(t)
    \/ Kill
    \/ KillWindows
    \/ PidReuse

KillSpec == InitKill /\ [][NextKill]_vars

----------------------------------------------------------------------------
(* What the histories say *)

\* the stream ch was captured: from_child started a reader for it
Captured(ch) == thread[ch] # "none"

\* the events of a history of sends, in send order
Events(history) == [i \in 1..Len(history) |-> history[i].ev]

\* the events thread t sent, in the order it sent them
SentBy(t) == Events(SelectSeq(sent, LAMBDA h : h.by = t))

\* the events of seq that carry the tag ch
Tagged(seq, ch) == SelectSeq(seq, LAMBDA e : e.ch = ch)

\* the texts of the Data(ch, _) events of seq, concatenated in order
RECURSIVE DataText(_, _)
DataText(seq, ch) ==
    IF seq = <<>> THEN <<>>
    ELSE (IF Head(seq).type = "Data" /\ Head(seq).ch = ch THEN Head(seq).text ELSE <<>>)
         \o DataText(Tail(seq), ch)

\* how many events of seq are of one of the types
CountOf(seq, types) == Cardinality({i \in 1..Len(seq) : seq[i].type \in types})

\* the places of seq that hold an event of the type
Places(seq, type) == {i \in 1..Len(seq) : seq[i].type = type}

IsPrefix(a, b) == Len(a) <= Len(b) /\ a = SubSeq(b, 1, Len(a))

Drained == last = [op |-> "try_recv", res |-> "Disconnected"]

----------------------------------------------------------------------------
(* C1. Every valid UTF-8 text the child writes to a captured stdout, read in *)
(* chunks of any sizes without a read error, reaches the consumer whole:     *)
(* once try_recv has returned Disconnected the Data(Stdout, _) texts received *)
(* concatenate to the text written.  The code does not do this: a chunk that *)
(* ends inside a multi-byte character is not valid UTF-8 by itself.          *)
C1_NoByteLost ==
    (/\ Drained
     /\ os.state = "reaped"
     /\ Captured("Stdout")
     /\ Utf8Valid(out.Stdout)
     /\ CountOf(received, {"IoError"}) = 0)
    => DataText(received, "Stdout") = out.Stdout

----------------------------------------------------------------------------
(* C2, as claimed. With stdout and stderr both captured, no Data event is   *)
(* dequeued after Exit has been dequeued.                                    *)
C2_NoDataAfterExit ==
    (Captured("Stdout") /\ Captured("Stderr")) =>
        \A i \in Places(received, "Exit") : \A j \in Places(received, "Data") : j < i

(* C2, amended. With stdout and stderr both captured, every Data(Stdout, _)  *)
(* event sent before the exit waiter sent Exit is dequeued before Exit; a    *)
(* Data event follows Exit only if the reader sent it after Exit was sent.   *)
C2_DataSentBeforeExitComesFirst ==
    (Captured("Stdout") /\ Captured("Stderr")) =>
        \A i \in Places(received, "Exit") : \A k \in Places(Events(sent), "Exit") :
            DataText(SubSeq(received, 1, i), "Stdout")
                = DataText(SubSeq(Events(sent), 1, k), "Stdout")

\* Exit was dequeued and a Data(Stdout, _) event after it
C2_Witness ==
    /\ Captured("Stdout") /\ Captured("Stderr")
    /\ \E i \in Places(received, "Exit") : \E j \in Places(received, "Data") : i < j

----------------------------------------------------------------------------
(* Scheduling: from_child returns, every spawned thread keeps running, a wait *)
(* on an exited child returns, and the consumer keeps calling try_recv.  That *)
(* the child exits and that a wait fails are left to the environment.        *)
Fairness ==
    /\ WF_vars(FromChild)
    /\ \A ch \in Chan : WF_vars(ReadData(ch) \/ ReadEof(ch))
    /\ WF_vars(WaitOk)
    /\ \A t \in Threads : WF_vars(ThreadExit(t))
    /\ WF_vars(TryRecv)

LiveSpec == StreamSpec /\ Fairness

\* the producers alone: a read or a wait that can return does return, a
\* closure that has returned ends its thread
ProducerFairness ==
    /\ \A ch \in Chan : WF_vars(ReadData(ch) \/ ReadEof(ch))
    /\ WF_vars(WaitOk)
    /\ \A t \in Threads : WF_vars(ThreadExit(t))

DropLiveSpec == DropSpec /\ ProducerFairness

Terminal == {"Exit", "CommandError"}

(* C3. A process spawned with neither stdout nor stderr captured that         *)
(* terminates: the consumer never receives anything but one terminal event,  *)
(* it does receive it, and from some point on every try_recv returns         *)
(* Disconnected.                                                             *)
C3_OneTerminalThenDisconnected ==
    (~child.Stdout /\ ~child.Stderr /\ <>(os.state # "running")) =>
        /\ [](Len(received) <= 1 /\ CountOf(received, Terminal) = Len(received))
        /\ <>[](/\ Len(received) = 1
                /\ Drained
                /\ (received[1].type = "Exit" <=> os.state = "reaped"))

\* no stream captured, the wait succeeded, Exit was received, Disconnected seen
C3_Witness ==
    /\ \A ch \in Chan : ~Captured(ch)
    /\ received = <<Exit("exit 0")>>
    /\ Drained

----------------------------------------------------------------------------
(* C4. Whenever try_recv returns Disconnected the consumer has received      *)
(* exactly one Exit or CommandError before, whatever streams are captured.   *)
C4_DisconnectedAfterTerminal ==
    Drained => CountOf(received, Terminal) = 1

\* Disconnected with both streams captured and both readers ended by an error
C4_Witness ==
    /\ Drained
    /\ Captured("Stdout") /\ Captured("Stderr")
    /\ CountOf(received, {"IoError", "Utf8Error"}) = 2

----------------------------------------------------------------------------
(* C5. A try_recv returns the oldest event sent and not yet received when    *)
(* one is queued; Empty only when none is queued and some producer thread    *)
(* has not ended; Disconnected only when none is queued and every producer   *)
(* thread has ended.                                                         *)
C5_ThreeOutcomes ==
    [][last'.op = "try_recv" =>
        /\ last'.res \in {"Event", "Empty", "Disconnected"}
        /\ Len(received) < Len(sent) =>
              /\ last'.res = "Event"
              /\ received' = Append(received, sent[Len(received) + 1].ev)
        /\ last'.res = "Event" => Len(received) < Len(sent)
        /\ last'.res = "Empty" => \E t \in Threads : thread[t] \in {"run", "fin"}
        /\ last'.res = "Disconnected" => \A t \in Threads : thread[t] \in {"none", "done"}
    ]_vars

\* Empty was returned after an event had been received and with a reader running
C5_Witness ==
    /\ last = [op |-> "try_recv", res |-> "Empty"]
    /\ received # <<>>
    /\ thread["Stdout"] = "run"

----------------------------------------------------------------------------
(* C6. Once a try_recv has returned Disconnected, every later try_recv       *)
(* returns Disconnected, whatever calls come in between.                     *)
C6_DisconnectedForGood ==
    [][(seenDisc /\ last'.op = "try_recv") => last'.res = "Disconnected"]_vars

\* Disconnected was returned and kill was called after it
C6_Witness ==
    /\ seenDisc
    /\ last.op = "kill"

----------------------------------------------------------------------------
(* C7. At most one Exit is ever sent, and never both Exit and CommandError.  *)
C7_OneExitOrCommandError ==
    /\ CountOf(Events(sent), {"Exit"}) <= 1
    /\ CountOf(Events(sent), {"CommandError"}) = 0 \/ CountOf(Events(sent), {"Exit"}) = 0
    /\ thread["Waiter"] \in {"fin", "done"} => CountOf(Events(sent), Terminal) = 1

\* the wait failed after the child had exited: CommandError and no Exit
C7_Witness ==
    /\ thread["Waiter"] = "done"
    /\ os.state = "zombie"
    /\ CountOf(Events(sent), {"CommandError"}) = 1

----------------------------------------------------------------------------
(* C8. For each tag, the events with that tag are received in the order in   *)
(* which the reader produced them, and the Data texts in the order of the    *)
(* bytes in the stream, under every interleaving of the producers.           *)
C8_OrderPerTag ==
    \A ch \in Chan :
        /\ Tagged(received, ch) \o Tagged(queue, ch) = SentBy(ch)
        /\ IsPrefix(DataText(received, ch), out[ch])

\* a stderr event was received between two stdout events
C8_Witness ==
    \E i, j, k \in 1..Len(received) :
        /\ i < j /\ j < k
        /\ received[i].type = "Data" /\ received[i].ch = "Stdout"
        /\ received[j].ch = "Stderr"
        /\ received[k].ch = "Stdout"

----------------------------------------------------------------------------
(* C9. A reader sends at most one IoError or Utf8Error, and nothing after it. *)
C9_ErrorIsLast ==
    \A ch \in Chan :
        \A i \in 1..Len(SentBy(ch)) :
            SentBy(ch)[i].type \in {"IoError", "Utf8Error"} => i = Len(SentBy(ch))

\* the stdout reader ended on Utf8Error and left bytes of the stream unread
C9_Witness ==
    /\ thread["Stdout"] = "done"
    /\ Len(SentBy("Stdout")) = 1
    /\ SentBy("Stdout")[1].type = "Utf8Error"
    /\ pipe.Stdout # <<>>

----------------------------------------------------------------------------
(* C10. Without a captured stdin every write and every flush returns         *)
(* NotConnected, sends nothing and leaves the Process and the channel as     *)
(* they were.                                                                *)
C10_NotConnected ==
    [][(last'.op \in {"write", "flush"} /\ ~proc.stdin) =>
        /\ last'.res = "NotConnected"
        /\ UNCHANGED <<proc, queue, sent, received, senders, thread, os>>
    ]_vars

\* write returned NotConnected while events were queued and the child had exited
C10_Witness ==
    /\ last = [op |-> "write", res |-> "NotConnected"]
    /\ queue # <<>>
    /\ os.state = "reaped"

----------------------------------------------------------------------------
\* C11: once from_child has run there is the exit waiter and, for each of
\* stdout and stderr, a reader exactly when that stream was captured (so one
\* to three producers in all, and none before from_child), and every event
\* sent with the tag of a stream is of a stream that was captured.
C11_ProducersAndTags ==
    /\ ~proc.built => \A t \in Threads : thread[t] = "none"
    /\ proc.built =>
          /\ thread["Waiter"] # "none"
          /\ \A ch \in Chan : thread[ch] # "none" <=> piped[ch]
          /\ Cardinality({t \in Threads : thread[t] # "none"}) =
                 1 + Cardinality({ch \in Chan : piped[ch]})
    /\ senders \subseteq {"Waiter"} \cup {ch \in Chan : piped[ch]}
    /\ \A i \in 1..Len(sent) : sent[i].ev.ch \in Chan => piped[sent[i].ev.ch]

\* only stdout was captured, its reader has sent Data and the waiter runs
C11_Witness ==
    /\ piped.Stdout /\ ~piped.Stderr
    /\ thread["Waiter"] = "run"
    /\ \E i \in 1..Len(sent) : sent[i].ev.type = "Data" /\ sent[i].ev.ch = "Stdout"

----------------------------------------------------------------------------
(* kill *)

\* the listed processes below pid in the table: children, their children, ...
RECURSIVE Below(_, _)
Below(found, listed) ==
    LET more == {c \in listed : win.parent[c] \in found} \ found
    IN  IF more = {} THEN found ELSE Below(found \cup more, listed)
Descendants(pid, listed) == Below({c \in listed : win.parent[c] = pid}, listed)

C13_KillAfterExitFails ==
    [][(last'.op = "kill" /\ os.state # "running") => last'.res # "Ok"]_vars

\* C13: after the child has exited, kill returns an error once the waiter's
\* wait has reaped the child, as long as the OS has not given the pid to
\* another process; between the exit and the reaping kill returns an error on
\* Windows and success on Linux, where the pid still names the zombie.
C13_KillAfterReapFails ==
    [][last'.op = "kill" =>
          /\ os.state = "reaped" => last'.res = "Err"
          /\ (os.state = "zombie" /\ win.platform = "windows") => last'.res = "Err"
          /\ (os.state = "zombie" /\ win.platform = "linux") => last'.res = "Ok"]_vars

\* the waiter has reaped the child and ended, and a Linux kill has failed
C13_Witness ==
    /\ win.platform = "linux"
    /\ os.state = "reaped"
    /\ thread["Waiter"] = "done"
    /\ last = [op |-> "kill", res |-> "Err"]

\* C14: in a Windows kill, when the terminate request for a pid is issued,
\* a terminate request has already succeeded for every process the snapshot
\* lists below that pid, and a request for the child's own pid is the last
\* request of the call.
C14_DescendantsFirst ==
    [][(last'.op = "kill" /\ win.platform = "windows") =>
          LET log == win'.log
          IN  /\ \A i \in 1..Len(log) :
                    \A d \in Descendants(log[i].pid, Listed) :
                        \E j \in 1..(i - 1) : log[j].pid = d /\ log[j].ok
              /\ \A i \in 1..Len(log) : log[i].pid = proc.id => i = Len(log)]_vars

\* a chain child, grandchild, great-grandchild has been terminated from the
\* far end
C14_Witness ==
    /\ last = [op |-> "kill", res |-> "Ok"]
    /\ Len(win.log) = MaxProcs + 1
    /\ \A i \in 1..Len(win.log) : win.log[i].ok
    /\ \A i \in 2..Len(win.log) : win.parent[win.log[i - 1].pid] = win.log[i].pid

\* C15: a Windows kill returns Ok only if a terminate request succeeded for
\* the child and for every process the snapshot lists below it; a failed
\* request is the last request of the call and makes it return Err, an Err
\* comes with no request at all (the snapshot failed) or with a failed last
\* request, and the child is not terminated by a call in which the request
\* for a descendant failed.
C15_FirstFailureAborts ==
    [][(last'.op = "kill" /\ win.platform = "windows") =>
          LET log == win'.log
              res == last'.res
          IN  /\ res = "Ok" =>
                    \A p \in {proc.id} \cup Descendants(proc.id, Listed) :
                        p \in Terminated(log)
              /\ \A i \in 1..Len(log) : ~log[i].ok => (i = Len(log) /\ res = "Err")
              /\ res = "Err" => (log = <<>> \/ ~log[Len(log)].ok)
              /\ (\E i \in 1..Len(log) : ~log[i].ok /\ log[i].pid # proc.id) =>
                    (proc.id \notin Terminated(log) /\ os' = os)]_vars

\* one descendant has been terminated, the request for the next has failed,
\* kill has returned Err and the child still runs
C15_Witness ==
    /\ last = [op |-> "kill", res |-> "Err"]
    /\ Len(win.log) = 2
    /\ win.log[1].ok /\ ~win.log[2].ok
    /\ win.log[2].pid # proc.id
    /\ os.state = "running"

\* C20: whatever the table, kill_pid comes to an end (it does not use up the
\* stack) and issues at most one terminate request for each pid.
C20_KillPidEndsAndAsksOnce ==
    /\ win.res # "Overflow"
    /\ \A i, j \in 1..Len(win.log) : win.log[i].pid = win.log[j].pid => i = j

----------------------------------------------------------------------------
\* C19: the exit waiter sends nothing while it waits and exactly one event,
\* an Exit or a CommandError, by the time its closure has returned; the
\* Child it waits on holds neither stdout nor stderr, so it sends no Data and
\* no Utf8Error: each Data and Utf8Error event was sent by the reader of the
\* stream it is tagged with.
C19_WaiterSendsOneTerminal ==
    /\ proc.built => (~child.Stdout /\ ~child.Stderr)
    /\ \A i \in 1..Len(sent) :
          /\ sent[i].by = "Waiter" => sent[i].ev.type \in Terminal
          /\ sent[i].ev.type \in {"Data", "Utf8Error"} => sent[i].by = sent[i].ev.ch
    /\ thread["Waiter"] \in {"none", "run"} => Len(SentBy("Waiter")) = 0
    /\ thread["Waiter"] \in {"fin", "done"} => Len(SentBy("Waiter")) = 1

\* wait_with_output has returned while bytes of stdout were still unread, and
\* the waiter has sent Exit alone
C19_Witness ==
    /\ thread["Waiter"] = "fin"
    /\ thread["Stdout"] = "run"
    /\ pipe.Stdout # <<>>
    /\ SentBy("Waiter") = <<Exit(os.status)>>

----------------------------------------------------------------------------
(* the producers side by side *)

Other(ch) == CHOOSE o \in Chan : o # ch
Errors == {"IoError", "Utf8Error"}

\* C16: when the reader of one stream has stopped with IoError or Utf8Error
\* and the child exits, the consumer ends up with every byte of the other
\* captured stream as Data, unless that stream's reader met an error of its
\* own, and with Exit, unless the wait itself failed.
C16_OthersCarryOn ==
    <>(os.state # "running") =>
        <>[](\A ch \in Chan :
                CountOf(SentBy(ch), Errors) > 0 =>
                    /\ (piped[Other(ch)] /\ CountOf(SentBy(Other(ch)), Errors) = 0) =>
                          DataText(received, Other(ch)) = out[Other(ch)]
                    /\ CountOf(Events(sent), {"CommandError"}) = 0 =>
                          CountOf(received, {"Exit"}) = 1)

\* the stderr reader failed first; the consumer then got the text of stdout
\* and Exit
C16_Witness ==
    /\ Drained
    /\ out.Stdout # <<>>
    /\ received[1] = IoError("Stderr")
    /\ DataText(received, "Stdout") = out.Stdout
    /\ CountOf(received, {"Exit"}) = 1

\* C17: a producer whose thread has ended holds no sender; when the child
\* exits, every producer ends, the consumer receives every event that was
\* sent, in send order, and try_recv ends up returning Disconnected for good.
C17_AllEndThenDisconnected ==
    /\ [](\A t \in Threads : thread[t] \in {"none", "done"} => t \notin senders)
    /\ <>(os.state # "running") =>
          <>[](/\ \A t \in Threads : thread[t] \in {"none", "done"}
               /\ senders = {}
               /\ received = Events(sent)
               /\ Drained)

\* both streams captured: Data, Exit, then Disconnected
C17_Witness ==
    /\ piped.Stdout /\ piped.Stderr
    /\ Drained
    /\ Len(received) = 2
    /\ received = Events(sent)
    /\ \A t \in Threads : thread[t] = "done"

----------------------------------------------------------------------------
\* C18: dropping the Process leaves the child and the producers as they are;
\* from then on nothing reaches the channel, a reader that has read a chunk
\* (and so tries to send) ends, and once the child has exited every producer
\* ends: the waiter after its wait, the readers at a failed send, at an error
\* or at the end of their stream.
C18_DropLeavesProducersToEnd ==
    /\ [][(~proc.dropped /\ proc'.dropped) =>
             (os' = os /\ thread' = thread /\ senders' = senders /\ pipe' = pipe)]_vars
    /\ [][proc.dropped =>
             /\ sent' = sent /\ queue' = queue
             /\ \A ch \in Chan : pipe'[ch] # pipe[ch] => thread'[ch] = "fin"
             /\ \A t \in Threads : thread[t] \in {"fin", "done"} => thread'[t] # "run"]_vars
    /\ <>(proc.dropped /\ os.state # "running") =>
          <>[](\A t \in Threads : thread[t] \in {"none", "done"})

\* after the drop the stdout reader read one chunk and ended with bytes left
\* unread and nothing sent; the child still runs
C18_Witness ==
    /\ proc.dropped
    /\ os.state = "running"
    /\ thread["Stdout"] = "done"
    /\ pipe.Stdout # <<>>
    /\ Utf8Valid(out.Stdout)
    /\ sent = <<>>

====
